---- MODULE Spec2Model ----
(***************************************************************************)
(* A model of rake_nltk.rake.Rake: the RAKE keyword extractor.             *)
(*                                                                         *)
(* A character is its code point, a string (a token, a word, a ranked      *)
(* phrase string) is a sequence of characters.  A sentence is the          *)
(* sequence of tokens the configured word tokenizer returns for it; a      *)
(* phrase is a sequence of words.  A dict is a function whose DOMAIN is    *)
(* its key set.  A float score is the exact rational [n, d] in lowest      *)
(* terms.                                                                  *)
(***************************************************************************)
EXTENDS Integers, Sequences, FiniteSets, TLC

VARIABLES
    ranking_metric,            \* constructor argument ranking_metric
    stopwords_arg,             \* constructor argument stopwords
    punctuations_arg,          \* constructor argument punctuations
    metric,                    \* self.metric
    stopwords,                 \* self.stopwords
    punctuations,              \* self.punctuations
    to_ignore,                 \* self.to_ignore
    min_length,                \* self.min_length
    max_length,                \* self.max_length
    include_repeated_phrases,  \* self.include_repeated_phrases
    attrs,                     \* which result attributes of self are set
    frequency_dist,            \* self.frequency_dist (a Counter)
    degree,                    \* self.degree (a defaultdict)
    rank_list,                 \* self.rank_list
    ranked_phrases,            \* self.ranked_phrases
    op,                        \* the method called last
    arg,                       \* its argument
    ret,                       \* the list the call returned
    before,                    \* the two tables as the call found them
    fault,                     \* the exception the last call raised
    budget                     \* calls the caller may still make

config == <<ranking_metric, stopwords_arg, punctuations_arg, metric, stopwords,
            punctuations, to_ignore, min_length, max_length,
            include_repeated_phrases>>

tables == <<attrs, frequency_dist, degree, rank_list, ranked_phrases>>

vars == <<config, tables, op, arg, ret, before, fault, budget>>

-----------------------------------------------------------------------------
(* Bounds of the model *)

MaxSize == 3        \* the size of one argument: its tokens (or words) over
                    \* all its sentences, an empty sentence counting for one
MaxCalls == 2       \* calls on one instance
MaxLength == 2      \* the largest min_length / max_length given explicitly

-----------------------------------------------------------------------------
(* Characters and strings *)

Space == 32

\* str.lower() on one character (ASCII letters)
LowerChar(c) == IF c \in 65..90 THEN c + 32 ELSE c

\* word.lower()
Lower(word) == [i \in 1..Len(word) |-> LowerChar(word[i])]

\* the tokens a sentence is made of: "R", "g", ","
TokR == <<82>>
TokG == <<103>>
TokComma == <<44>>

Tokens == {TokR, TokG, TokComma}

\* nltk.corpus.stopwords.words(language): "a" stands for the language's list
LanguageStopwords == {<<97>>}

\* set(string.punctuation): "," and ";" stand for its 32 characters
StringPunctuation == {TokComma, <<59>>}

\* Python's str comparison: s < t by code points, a proper prefix is smaller
RECURSIVE StrLess(_, _)
StrLess(s, t) ==
    IF t = <<>> THEN FALSE
    ELSE IF s = <<>> THEN TRUE
    ELSE IF Head(s) # Head(t) THEN Head(s) < Head(t)
    ELSE StrLess(Tail(s), Tail(t))

\* ' '.join(phrase)
RECURSIVE Join(_)
Join(phrase) ==
    IF phrase = <<>> THEN <<>>
    ELSE IF Len(phrase) = 1 THEN phrase[1]
    ELSE phrase[1] \o <<Space>> \o Join(Tail(phrase))

-----------------------------------------------------------------------------
(* Floats, as exact rationals in lowest terms *)

RECURSIVE GCD(_, _)
GCD(a, b) == IF b = 0 THEN a ELSE GCD(b, a % b)

Rat(n, d) == LET g == GCD(n, d) IN [n |-> n \div g, d |-> d \div g]

Zero == Rat(0, 1)

RatAdd(x, y) == Rat(x.n * y.d + y.n * x.d, x.d * y.d)

RatLess(x, y) == x.n * y.d < y.n * x.d

-----------------------------------------------------------------------------
(* Dicts *)

EmptyDict == [w \in {} |-> 0]

Put(d, k, v) == [x \in DOMAIN d \cup {k} |-> IF x = k THEN v ELSE d[x]]

\* Counter.__getitem__ / Counter.__missing__: 0 for an absent key, no insert
CounterGet(d, k) == IF k \in DOMAIN d THEN d[k] ELSE 0

\* defaultdict(lambda: 0).__getitem__: an absent key is inserted with 0
DefaultDictTouch(d, k) == IF k \in DOMAIN d THEN d ELSE Put(d, k, 0)

-----------------------------------------------------------------------------
(* class Metric(Enum) *)

DEGREE_TO_FREQUENCY_RATIO == [cls |-> "Metric", v |-> 0]
WORD_DEGREE == [cls |-> "Metric", v |-> 1]
WORD_FREQUENCY == [cls |-> "Metric", v |-> 2]

Metric == {DEGREE_TO_FREQUENCY_RATIO, WORD_DEGREE, WORD_FREQUENCY}

\* isinstance(x, Metric)
IsMetric(x) == x.cls = "Metric"

-----------------------------------------------------------------------------
(* Rake._get_phrase_list_from_words and Rake._generate_phrases *)

\* the groupby key: lambda x: x not in self.to_ignore
NotIgnored(x) == x \notin to_ignore

\* itertools.groupby(word_list, key): consecutive words of equal key form
\* one group
RECURSIVE GroupBy(_, _)
GroupBy(word_list, groups) ==
    IF word_list = <<>> THEN groups
    ELSE LET x == Head(word_list)
             k == NotIgnored(x)
             n == Len(groups)
         IN  IF n > 0 /\ groups[n].key = k
             THEN GroupBy(Tail(word_list),
                          [groups EXCEPT ![n].group = Append(@, x)])
             ELSE GroupBy(Tail(word_list),
                          Append(groups, [key |-> k, group |-> <<x>>]))

\* a variant of LengthOk: max_length exclusive
LengthOkExclusive(x) == min_length <= Len(x) /\ Len(x) < max_length

\* lambda x: self.min_length <= len(x) <= self.max_length
LengthOk(x) == min_length <= Len(x) /\ Len(x) <= max_length

_get_phrase_list_from_words(word_list) ==
    LET groups == GroupBy(word_list, <<>>)
        IsKept(g) == g.key
        kept == SelectSeq(groups, IsKept)
        phrases == [i \in 1..Len(kept) |-> kept[i].group]
    IN  SelectSeq(phrases, LengthOk)

\* a variant of WordList: the tokens as they come, not lower-cased
WordListAsIs(sentence) == sentence

\* [word.lower() for word in self._tokenize_sentence_to_words(sentence)]
WordList(sentence) == [i \in 1..Len(sentence) |-> Lower(sentence[i])]

\* a variant of AllPhrases: the phrases of the words of all the sentences,
\* taken as one word list
AllPhrasesOfText(sentences) ==
    LET words[n \in 0..Len(sentences)] ==
            IF n = 0 THEN <<>> ELSE words[n - 1] \o WordList(sentences[n])
    IN  _get_phrase_list_from_words(words[Len(sentences)])

\* the loop over the sentences, phrase_list.extend(...)
RECURSIVE AllPhrases(_)
AllPhrases(sentences) ==
    IF sentences = <<>> THEN <<>>
    ELSE _get_phrase_list_from_words(WordList(Head(sentences)))
             \o AllPhrases(Tail(sentences))

\* a variant of NonRepeated: the last occurrence of a phrase is the one kept
RECURSIVE NonRepeatedKeepLast(_, _, _)
NonRepeatedKeepLast(phrase_list, unique_phrase_tracker, non_repeated_phrase_list) ==
    IF phrase_list = <<>> THEN non_repeated_phrase_list
    ELSE LET phrase == Head(phrase_list)
             rest == Tail(phrase_list)
         IN  IF \A i \in 1..Len(rest) : rest[i] # phrase
             THEN NonRepeatedKeepLast(rest, unique_phrase_tracker,
                                      Append(non_repeated_phrase_list, phrase))
             ELSE NonRepeatedKeepLast(rest, unique_phrase_tracker,
                                      non_repeated_phrase_list)

\* the loop with unique_phrase_tracker
RECURSIVE NonRepeated(_, _, _)
NonRepeated(phrase_list, unique_phrase_tracker, non_repeated_phrase_list) ==
    IF phrase_list = <<>> THEN non_repeated_phrase_list
    ELSE LET phrase == Head(phrase_list)
         IN  IF phrase \notin unique_phrase_tracker
             THEN NonRepeated(Tail(phrase_list),
                              unique_phrase_tracker \cup {phrase},
                              Append(non_repeated_phrase_list, phrase))
             ELSE NonRepeated(Tail(phrase_list), unique_phrase_tracker,
                              non_repeated_phrase_list)

_generate_phrases(sentences) ==
    LET phrase_list == AllPhrases(sentences)
    IN  IF ~include_repeated_phrases
        THEN NonRepeated(phrase_list, {}, <<>>)
        ELSE phrase_list

-----------------------------------------------------------------------------
(* Rake._build_frequency_dist *)

\* chain.from_iterable(phrase_list)
RECURSIVE Chain(_)
Chain(phrase_list) ==
    IF phrase_list = <<>> THEN <<>>
    ELSE Head(phrase_list) \o Chain(Tail(phrase_list))

\* a variant of Counter: an element is counted once, however often it comes
RECURSIVE CounterOnce(_, _)
CounterOnce(iterable, counts) ==
    IF iterable = <<>> THEN counts
    ELSE CounterOnce(Tail(iterable), Put(counts, Head(iterable), 1))

\* Counter(iterable): one increment per element
RECURSIVE Counter(_, _)
Counter(iterable, counts) ==
    IF iterable = <<>> THEN counts
    ELSE Counter(Tail(iterable),
                 Put(counts, Head(iterable), CounterGet(counts, Head(iterable)) + 1))

\* a variant of _build_frequency_dist: the counts are added to the table
\* the instance holds
_build_frequency_dist_carry(phrase_list) ==
    Counter(Chain(phrase_list), frequency_dist)

_build_frequency_dist(phrase_list) == Counter(Chain(phrase_list), EmptyDict)

-----------------------------------------------------------------------------
(* Rake._build_word_co_occurance_graph *)

\* a variant of Increment: a word is not counted as a co-word of itself
IncrementOthers(graph, word, coword) ==
    LET row == IF word \in DOMAIN graph THEN graph[word] ELSE EmptyDict
    IN  IF word = coword THEN graph
        ELSE Put(graph, word, Put(row, coword, CounterGet(row, coword) + 1))

\* co_occurance_graph[word][coword] += 1 on nested defaultdicts
Increment(graph, word, coword) ==
    LET row == IF word \in DOMAIN graph THEN graph[word] ELSE EmptyDict
    IN  Put(graph, word, Put(row, coword, CounterGet(row, coword) + 1))

\* for (word, coword) in product(phrase, phrase): the k-th pair onwards
RECURSIVE ProductLoop(_, _, _)
ProductLoop(graph, phrase, k) ==
    LET n == Len(phrase)
    IN  IF k > n * n THEN graph
        ELSE ProductLoop(Increment(graph, phrase[((k - 1) \div n) + 1],
                                   phrase[((k - 1) % n) + 1]),
                         phrase, k + 1)

\* for phrase in phrase_list
RECURSIVE CoOccuranceGraph(_, _)
CoOccuranceGraph(phrase_list, graph) ==
    IF phrase_list = <<>> THEN graph
    ELSE CoOccuranceGraph(Tail(phrase_list),
                          ProductLoop(graph, Head(phrase_list), 1))

\* a variant of SumValues: the number of keys
SumValuesCount(d, keys) == Cardinality(keys)

\* sum(d.values())
RECURSIVE SumValues(_, _)
SumValues(d, keys) ==
    IF keys = {} THEN 0
    ELSE LET k == CHOOSE k \in keys : TRUE
         IN  d[k] + SumValues(d, keys \ {k})

_build_word_co_occurance_graph(phrase_list) ==
    LET co_occurance_graph == CoOccuranceGraph(phrase_list, EmptyDict)
    IN  [key \in DOMAIN co_occurance_graph |->
            SumValues(co_occurance_graph[key], DOMAIN co_occurance_graph[key])]

-----------------------------------------------------------------------------
(* Rake._build_ranklist *)

\* a variant of RankWord: f(w)/d(w) for the ratio
RankWordInverse(rank, word, att, freq, deg) ==
    LET deg2 == DefaultDictTouch(deg, word)
        stop(d, e) == [rank |-> rank, degree |-> d, fault |-> e]
    IN  CASE metric = DEGREE_TO_FREQUENCY_RATIO ->
               IF "degree" \notin att THEN stop(deg, "AttributeError")
               ELSE IF "frequency_dist" \notin att
                    THEN stop(deg2, "AttributeError")
               ELSE IF CounterGet(freq, word) = 0
                    THEN stop(deg2, "ZeroDivisionError")
               ELSE [rank |-> RatAdd(rank, Rat(CounterGet(freq, word), deg2[word])),
                     degree |-> deg2, fault |-> "none"]
          [] metric = WORD_DEGREE ->
               IF "degree" \notin att THEN stop(deg, "AttributeError")
               ELSE [rank |-> RatAdd(rank, Rat(deg2[word], 1)),
                     degree |-> deg2, fault |-> "none"]
          [] OTHER ->
               IF "frequency_dist" \notin att THEN stop(deg, "AttributeError")
               ELSE [rank |-> RatAdd(rank, Rat(CounterGet(freq, word), 1)),
                     degree |-> deg, fault |-> "none"]

\* one pass of the loop "for word in phrase": the new rank, self.degree
\* after the read (a defaultdict inserts the key it misses) and the exception
\* the pass raised.  att, freq, deg: the attributes of self that are set,
\* self.frequency_dist, self.degree
RankWord(rank, word, att, freq, deg) ==
    LET deg2 == DefaultDictTouch(deg, word)
        stop(d, e) == [rank |-> rank, degree |-> d, fault |-> e]
    IN  CASE metric = DEGREE_TO_FREQUENCY_RATIO ->
               IF "degree" \notin att THEN stop(deg, "AttributeError")
               ELSE IF "frequency_dist" \notin att
                    THEN stop(deg2, "AttributeError")
               ELSE IF CounterGet(freq, word) = 0
                    THEN stop(deg2, "ZeroDivisionError")
               ELSE [rank |-> RatAdd(rank, Rat(deg2[word], CounterGet(freq, word))),
                     degree |-> deg2, fault |-> "none"]
          [] metric = WORD_DEGREE ->
               IF "degree" \notin att THEN stop(deg, "AttributeError")
               ELSE [rank |-> RatAdd(rank, Rat(deg2[word], 1)),
                     degree |-> deg2, fault |-> "none"]
          [] OTHER ->
               IF "frequency_dist" \notin att THEN stop(deg, "AttributeError")
               ELSE [rank |-> RatAdd(rank, Rat(CounterGet(freq, word), 1)),
                     degree |-> deg, fault |-> "none"]

\* for word in phrase, from rank = 0.0
RECURSIVE RankPhrase(_, _, _, _, _)
RankPhrase(rank, phrase, att, freq, deg) ==
    IF phrase = <<>> THEN [rank |-> rank, degree |-> deg, fault |-> "none"]
    ELSE LET r == RankWord(rank, Head(phrase), att, freq, deg)
         IN  IF r.fault # "none" THEN r
             ELSE RankPhrase(r.rank, Tail(phrase), att, freq, r.degree)

\* for phrase in phrase_list: self.rank_list.append((rank, ' '.join(phrase)))
RECURSIVE RankLoop(_, _, _, _, _)
RankLoop(phrase_list, ranks, att, freq, deg) ==
    IF phrase_list = <<>>
    THEN [rank_list |-> ranks, degree |-> deg, fault |-> "none"]
    ELSE LET r == RankPhrase(Zero, Head(phrase_list), att, freq, deg)
         IN  IF r.fault # "none"
             THEN [rank_list |-> ranks, degree |-> r.degree, fault |-> r.fault]
             ELSE RankLoop(Tail(phrase_list),
                           Append(ranks, <<r.rank, Join(Head(phrase_list))>>),
                           att, freq, r.degree)

\* a variant of TupleLess: the scores alone are compared
TupleLessByScore(x, y) == RatLess(x[1], y[1])

\* x < y on (float, str) tuples
TupleLess(x, y) ==
    IF x[1] # y[1] THEN RatLess(x[1], y[1]) ELSE StrLess(x[2], y[2])

\* list.sort(reverse=True) is stable: x goes before the first smaller entry
RECURSIVE InsertReverse(_, _)
InsertReverse(sorted, x) ==
    IF sorted = <<>> THEN <<x>>
    ELSE IF TupleLess(Head(sorted), x) THEN <<x>> \o sorted
    ELSE <<Head(sorted)>> \o InsertReverse(Tail(sorted), x)

\* a variant of SortReverse: the list is left in the order of the phrases
SortReverseAsIs(list, sorted) == list \o sorted

RECURSIVE SortReverse(_, _)
SortReverse(list, sorted) ==
    IF list = <<>> THEN sorted
    ELSE SortReverse(Tail(list), InsertReverse(sorted, Head(list)))

\* the whole method: what it leaves in self, given what self held
_build_ranklist(phrase_list, att, freq, deg, phrases_before) ==
    LET r == RankLoop(phrase_list, <<>>, att, freq, deg)
        sorted == SortReverse(r.rank_list, <<>>)
    IN  IF r.fault # "none"
        THEN [attrs |-> att \cup {"rank_list"}, degree |-> r.degree,
              rank_list |-> r.rank_list, ranked_phrases |-> phrases_before,
              fault |-> r.fault]
        ELSE [attrs |-> att \cup {"rank_list", "ranked_phrases"},
              degree |-> r.degree, rank_list |-> sorted,
              ranked_phrases |-> [i \in 1..Len(sorted) |-> sorted[i][2]],
              fault |-> "none"]

\* get_ranked_phrases, get_ranked_phrases_with_scores,
\* get_word_frequency_distribution, get_word_degrees
get_ranked_phrases == ranked_phrases
get_ranked_phrases_with_scores == rank_list
get_word_frequency_distribution == frequency_dist
get_word_degrees == degree

-----------------------------------------------------------------------------
(* The arguments the model draws *)


\* the sequences over S of size k; the empty one, where allowed, has size 1
ItemsOfSize(S, shortest, k) ==
    [1..k -> S] \cup (IF k = 1 /\ shortest = 0 THEN {<<>>} ELSE {})

\* the lists of sequences over S, of a size of at most n
RECURSIVE ListsUpTo(_, _, _)
ListsUpTo(S, shortest, n) ==
    {<<>>} \cup
    UNION {{<<item>> \o rest : item \in ItemsOfSize(S, shortest, k),
                              rest \in ListsUpTo(S, shortest, n - k)} :
           k \in 1..n}

ListsOver(S, shortest) == ListsUpTo(S, shortest, MaxSize)

\* lists of sentences, each the token sequence the word tokenizer returns
SentenceLists == ListsOver(Tokens, 0)

\* the words of candidate phrases: "r", "g"
Words == {Lower(TokR), TokG}

\* lists of phrases, each a non-empty sequence of words
PhraseLists == ListsOver(Words, 1)

\* the word list of one sentence
WordLists == {ss[1] : ss \in {x \in SentenceLists : Len(x) = 1}}

\* an Optional[Set[str]] argument
None == [given |-> FALSE, v |-> {}]
Some(S) == [given |-> TRUE, v |-> S]

\* stopwords={"g"}, punctuations={"."}
StopwordsArgs == {None, Some({}), Some({TokG})}
PunctuationsArgs == {None, Some({}), Some({<<46>>})}

\* the Metric members and ranking_metric=1 of test_rake_default_metric
RankingMetricArgs == Metric \cup {[cls |-> "int", v |-> 1]}

DefaultMaxLength == 100000
DefaultMinLength == 1

MaxLengthArgs == 1..MaxLength \cup {DefaultMaxLength}
MinLengthArgs == 1..MaxLength

-----------------------------------------------------------------------------
(* Rake.__init__ *)

\* "if stopwords:" / "if punctuations:": None and the empty set are false
Truthy(x) == x.given /\ x.v # {}

\* a variant of MetricOf: the Metric member of the value given
MetricOfValue(a_ranking_metric) == [cls |-> "Metric", v |-> a_ranking_metric.v]

\* "if isinstance(ranking_metric, Metric): ... else: ..."
MetricOf(a_ranking_metric) ==
    IF IsMetric(a_ranking_metric) THEN a_ranking_metric
    ELSE DEGREE_TO_FREQUENCY_RATIO

NoTables == [frequency_dist |-> EmptyDict, degree |-> EmptyDict]

__init__(a_stopwords, a_punctuations, a_ranking_metric, a_max_length, a_min_length, a_include_repeated_phrases, a_budget) ==
    /\ ranking_metric = a_ranking_metric
    /\ stopwords_arg = a_stopwords
    /\ punctuations_arg = a_punctuations
    /\ metric = MetricOf(a_ranking_metric)
    /\ stopwords = IF Truthy(a_stopwords) THEN a_stopwords.v
                   ELSE LanguageStopwords
    /\ punctuations = IF Truthy(a_punctuations) THEN a_punctuations.v
                      ELSE StringPunctuation
    /\ to_ignore = stopwords \cup punctuations
    /\ min_length = a_min_length
    /\ max_length = a_max_length
    /\ include_repeated_phrases = a_include_repeated_phrases
    /\ attrs = {}
    /\ frequency_dist = EmptyDict
    /\ degree = EmptyDict
    /\ rank_list = <<>>
    /\ ranked_phrases = <<>>
    /\ op = "idle"
    /\ arg = <<>>
    /\ ret = <<>>
    /\ before = NoTables
    /\ fault = "none"
    /\ budget = a_budget

\* Rake(ranking_metric=m, include_repeated_phrases=rep), used for up to
\* MaxCalls calls
Init ==
    \E m \in Metric, rep \in BOOLEAN :
        __init__(None, None, m, DefaultMaxLength, DefaultMinLength, rep,
                 MaxCalls)

\* Rake(ranking_metric=m, include_repeated_phrases=rep), used for one call
InitFresh ==
    \E m \in RankingMetricArgs, rep \in BOOLEAN :
        __init__(None, None, m, DefaultMaxLength, DefaultMinLength, rep, 1)

\* Rake(stopwords=s, punctuations=p, max_length=hi, min_length=lo,
\* include_repeated_phrases=rep), used for one call
InitPhrases ==
    \E s \in StopwordsArgs, p \in PunctuationsArgs, hi \in MaxLengthArgs,
       lo \in MinLengthArgs, rep \in BOOLEAN :
        __init__(s, p, DEGREE_TO_FREQUENCY_RATIO, hi, lo, rep, 1)

\* Rake(ranking_metric=m, max_length=hi, min_length=lo,
\* include_repeated_phrases=rep), used for one call
InitLengths ==
    \E m \in Metric, hi \in MaxLengthArgs, lo \in MinLengthArgs,
       rep \in BOOLEAN :
        __init__(None, None, m, hi, lo, rep, 1)

-----------------------------------------------------------------------------
(* The calls on the instance *)

Called(name, a) ==
    /\ op = "idle"
    /\ budget > 0
    /\ op' = name
    /\ arg' = a
    /\ before' = [frequency_dist |-> frequency_dist, degree |-> degree]
    /\ budget' = budget - 1

\* r._generate_phrases(sentences): reads the configuration, returns a list
GeneratePhrases(sentences) ==
    /\ Called("_generate_phrases", sentences)
    /\ ret' = _generate_phrases(sentences)
    /\ fault' = "none"
    /\ UNCHANGED <<config, tables>>

\* r._get_phrase_list_from_words(word_list): reads the configuration,
\* returns a list
GetPhraseListFromWords(word_list) ==
    /\ Called("_get_phrase_list_from_words", <<word_list>>)
    /\ ret' = _get_phrase_list_from_words(word_list)
    /\ fault' = "none"
    /\ UNCHANGED <<config, tables>>

\* r._build_frequency_dist(phrase_list)
BuildFrequencyDist(phrase_list) ==
    /\ Called("_build_frequency_dist", phrase_list)
    /\ frequency_dist' = _build_frequency_dist(phrase_list)
    /\ attrs' = attrs \cup {"frequency_dist"}
    /\ ret' = <<>>
    /\ fault' = "none"
    /\ UNCHANGED <<config, degree, rank_list, ranked_phrases>>

\* r._build_word_co_occurance_graph(phrase_list)
BuildWordCoOccuranceGraph(phrase_list) ==
    /\ Called("_build_word_co_occurance_graph", phrase_list)
    /\ degree' = _build_word_co_occurance_graph(phrase_list)
    /\ attrs' = attrs \cup {"degree"}
    /\ ret' = <<>>
    /\ fault' = "none"
    /\ UNCHANGED <<config, frequency_dist, rank_list, ranked_phrases>>

\* r._build_ranklist(phrase_list)
BuildRanklist(phrase_list) ==
    LET r == _build_ranklist(phrase_list, attrs, frequency_dist, degree,
                             ranked_phrases)
    IN  /\ Called("_build_ranklist", phrase_list)
        /\ attrs' = r.attrs
        /\ degree' = r.degree
        /\ rank_list' = r.rank_list
        /\ ranked_phrases' = r.ranked_phrases
        /\ fault' = r.fault
        /\ ret' = <<>>
        /\ UNCHANGED <<config, frequency_dist>>

\* r.extract_keywords_from_sentences(sentences)
ExtractKeywordsFromSentences(sentences) ==
    LET phrase_list == _generate_phrases(sentences)
        freq == _build_frequency_dist(phrase_list)
        deg == _build_word_co_occurance_graph(phrase_list)
        r == _build_ranklist(phrase_list,
                             attrs \cup {"frequency_dist", "degree"},
                             freq, deg, ranked_phrases)
    IN  /\ Called("extract_keywords_from_sentences", sentences)
        /\ frequency_dist' = freq
        /\ attrs' = r.attrs
        /\ degree' = r.degree
        /\ rank_list' = r.rank_list
        /\ ranked_phrases' = r.ranked_phrases
        /\ fault' = r.fault
        /\ ret' = <<>>
        /\ UNCHANGED config

\* the caller takes the result (or the exception) and goes on
Return ==
    /\ op # "idle"
    /\ op' = "idle"
    /\ arg' = <<>>
    /\ ret' = <<>>
    /\ before' = NoTables
    /\ fault' = "none"
    /\ UNCHANGED <<config, tables, budget>>

\* the extraction and its steps, on the instance as earlier calls left it
Next ==
    \/ \E phrase_list \in PhraseLists :
          \/ BuildFrequencyDist(phrase_list)
          \/ BuildWordCoOccuranceGraph(phrase_list)
          \/ BuildRanklist(phrase_list)
    \/ \E sentences \in SentenceLists :
          ExtractKeywordsFromSentences(sentences)
    \/ Return

Spec == Init /\ [][Next]_vars

SpecFresh == InitFresh /\ [][Next]_vars

SpecLengths == InitLengths /\ [][Next]_vars

\* phrase generation, under every configuration of it
NextPhrases ==
    \/ \E word_list \in WordLists : GetPhraseListFromWords(word_list)
    \/ \E sentences \in SentenceLists : GeneratePhrases(sentences)
    \/ Return

SpecPhrases == InitPhrases /\ [][NextPhrases]_vars

-----------------------------------------------------------------------------
(* Properties *)

\* the lower-cased tokens of a sentence
Lowered(sentence) == [i \in 1..Len(sentence) |-> Lower(sentence[i])]

\* the positions at which a maximal run of words outside the ignore set starts
RunStarts(words) ==
    {i \in 1..Len(words) :
        words[i] \notin to_ignore /\ (i = 1 \/ words[i - 1] \in to_ignore)}

\* the last position of the maximal run that starts at i
RunEnd(words, i) ==
    CHOOSE j \in i..Len(words) :
        /\ \A k \in i..j : words[k] \notin to_ignore
        /\ (j = Len(words) \/ words[j + 1] \in to_ignore)

Run(words, i) == SubSeq(words, i, RunEnd(words, i))

\* list is exactly the maximal runs of words, from left to right
IsRunList(list, words) ==
    LET starts == RunStarts(words)
    IN  /\ Len(list) = Cardinality(starts)
        /\ \A i \in starts :
              list[Cardinality({s \in starts : s <= i})] = Run(words, i)
        /\ \A k \in 1..Len(list) :
              /\ list[k] # <<>>
              /\ \A j \in 1..Len(list[k]) : list[k][j] \notin to_ignore

NothingFiltered(words) == min_length <= 1 /\ max_length >= Len(words)

\* the positions of list that hold the first occurrence of their phrase
FirstOccurrences(list) ==
    {i \in 1..Len(list) : \A j \in 1..(i - 1) : list[j] # list[i]}

\* out is list cut down to the first occurrence of each phrase, in order
IsFirstOccurrenceList(out, list) ==
    LET first == FirstOccurrences(list)
    IN  /\ Len(out) = Cardinality(first)
        /\ \A i \in first : out[Cardinality({f \in first : f <= i})] = list[i]

\* the maximal runs of words, from left to right
RunList(words) ==
    LET starts == RunStarts(words)
    IN  [k \in 1..Cardinality(starts) |->
            Run(words, CHOOSE i \in starts :
                           Cardinality({x \in starts : x <= i}) = k)]

C2_RepeatFilter ==
    op = "_generate_phrases" =>
        IF include_repeated_phrases
        THEN ret = AllPhrases(arg)
        ELSE IsFirstOccurrenceList(ret, AllPhrases(arg))

\* a phrase, another one, the first again: the repeat is dropped
C2_Witness ==
    /\ op = "_generate_phrases"
    /\ ~include_repeated_phrases
    /\ Len(AllPhrases(arg)) = 3
    /\ AllPhrases(arg)[1] = AllPhrases(arg)[3]
    /\ AllPhrases(arg)[1] # AllPhrases(arg)[2]
    /\ ret = SubSeq(AllPhrases(arg), 1, 2)

\* the maximal runs of a word list, and of the lower-cased sentences of a list
RunsOf(words) == {Run(words, i) : i \in RunStarts(words)}
AllRuns(sentences) ==
    UNION {RunsOf(Lowered(sentences[k])) : k \in 1..Len(sentences)}

InRange(n) == min_length <= n /\ n <= max_length

\* out holds phrases of a length in range only, and every run in range
IsLengthFiltered(out, runs) ==
    /\ \A k \in 1..Len(out) : InRange(Len(out[k]))
    /\ \A r \in runs : InRange(Len(r)) => \E k \in 1..Len(out) : out[k] = r
    /\ min_length > max_length => out = <<>>

\* C3: every phrase returned has min_length <= word count <= max_length,
\* every maximal run with a word count in that range is returned, and with
\* min_length > max_length the result is the empty list, without an error.
C3_LengthFilter ==
    /\ op = "_generate_phrases"
          => fault = "none" /\ IsLengthFiltered(ret, AllRuns(arg))
    /\ op = "_get_phrase_list_from_words"
          => fault = "none" /\ IsLengthFiltered(ret, RunsOf(arg[1]))

\* min_length = max_length = 2: the run of two words is returned, the run of
\* one word is not
C3_Witness ==
    /\ op = "_generate_phrases"
    /\ min_length = 2
    /\ max_length = 2
    /\ \E r \in AllRuns(arg) : Len(r) = 1
    /\ \E r \in AllRuns(arg) : Len(r) = 2
    /\ Len(ret) = 1

\* the words the properties range over: the tokens, the words, and "x", which is
\* in no sentence and no phrase
AnyWord == Tokens \cup Words \cup {<<120>>}

\* the word positions <<i, j>> of a phrase list
Positions(phrase_list) ==
    UNION {{<<i, j>> : j \in 1..Len(phrase_list[i])} : i \in 1..Len(phrase_list)}

\* the number of positions of phrase_list that hold w
Occurrences(phrase_list, w) ==
    Cardinality({q \in Positions(phrase_list) : phrase_list[q[1]][q[2]] = w})

\* C4: after _build_frequency_dist(phrases) the frequency table maps every
\* word to the number of positions at which it occurs in the phrases of the
\* list, and a word that occurs in none has frequency 0.
C4_Frequency ==
    op = "_build_frequency_dist" =>
        /\ fault = "none"
        /\ "frequency_dist" \in attrs
        /\ \A w \in AnyWord :
              CounterGet(frequency_dist, w) = Occurrences(arg, w)

\* "r" twice in one phrase and once in another: 3
C4_Witness ==
    /\ op = "_build_frequency_dist"
    /\ arg = << <<Lower(TokR), Lower(TokR)>>, <<Lower(TokR)>> >>
    /\ frequency_dist[Lower(TokR)] = 3
    /\ TokG \notin DOMAIN frequency_dist

\* the sum over the phrases p of len(p) times the occurrences of w in p: the
\* triples <<i, j, k>> with w at position j of phrase i and k a position of it
DegreeOf(phrase_list, w) ==
    Cardinality(
        UNION {{<<q[1], q[2], k>> : k \in 1..Len(phrase_list[q[1]])} :
               q \in {x \in Positions(phrase_list) :
                        phrase_list[x[1]][x[2]] = w}})

\* what reading d[k] gives on a defaultdict(lambda: 0)
DefaultDictGet(d, k) == DefaultDictTouch(d, k)[k]

\* C5: after _build_word_co_occurance_graph(phrases) the degree table maps
\* every word w to the sum over the phrases p of len(p) times the number of
\* occurrences of w in p, and a word that occurs in no phrase has degree 0.
C5_Degree ==
    op = "_build_word_co_occurance_graph" =>
        /\ fault = "none"
        /\ "degree" \in attrs
        /\ \A w \in AnyWord : DefaultDictGet(degree, w) = DegreeOf(arg, w)

\* "r" twice in a phrase of two words: 4 from that phrase
C5_Witness ==
    /\ op = "_build_word_co_occurance_graph"
    /\ arg = << <<Lower(TokR), Lower(TokR)>>, <<TokG>> >>
    /\ degree[Lower(TokR)] = 4
    /\ degree[TokG] = 1

\* the phrase list an extraction ranks
Generated == _generate_phrases(arg)

\* the per-word metric, read off the tables the instance holds
WordMetric(w) ==
    CASE metric = DEGREE_TO_FREQUENCY_RATIO ->
           Rat(DefaultDictGet(degree, w), CounterGet(frequency_dist, w))
      [] metric = WORD_DEGREE -> Rat(DefaultDictGet(degree, w), 1)
      [] metric = WORD_FREQUENCY -> Rat(CounterGet(frequency_dist, w), 1)

\* the sum of the per-word metric over the word positions of a phrase
RECURSIVE ScoreOf(_)
ScoreOf(phrase) ==
    IF phrase = <<>> THEN Zero
    ELSE RatAdd(WordMetric(Head(phrase)), ScoreOf(Tail(phrase)))

\* where word i of a phrase starts in the joined string, less one
RECURSIVE Offset(_, _)
Offset(phrase, i) ==
    IF i = 1 THEN 0 ELSE Offset(phrase, i - 1) + Len(phrase[i - 1]) + 1

\* str is the words of phrase in their order, one space between two of them
IsJoined(str, phrase) ==
    /\ Len(str) = IF phrase = <<>> THEN 0
                  ELSE Offset(phrase, Len(phrase)) + Len(phrase[Len(phrase)])
    /\ \A i \in 1..Len(phrase) :
          /\ i > 1 => str[Offset(phrase, i)] = Space
          /\ \A c \in 1..Len(phrase[i]) :
                str[Offset(phrase, i) + c] = phrase[i][c]

\* ranks holds one entry per phrase occurrence of phrase_list: its score and
\* its joined string
IsRanking(ranks, phrase_list) ==
    /\ Len(ranks) = Len(phrase_list)
    /\ \E f \in [1..Len(phrase_list) -> 1..Len(phrase_list)] :
          /\ \A i, j \in 1..Len(phrase_list) : f[i] = f[j] => i = j
          /\ \A k \in 1..Len(phrase_list) :
                /\ ranks[f[k]][1] = ScoreOf(phrase_list[k])
                /\ IsJoined(ranks[f[k]][2], phrase_list[k])

\* C6: every phrase occurrence of the phrase list has a ranked entry whose
\* score is the sum, over the word positions of the phrase, of
\* degree/frequency, degree or frequency (by the metric) and whose string is
\* the words of the phrase joined by single spaces.
C6_Scores ==
    /\ op = "extract_keywords_from_sentences"
          => fault = "none" /\ IsRanking(rank_list, Generated)
    /\ (op = "_build_ranklist" /\ fault = "none")
          => IsRanking(rank_list, arg)

\* "R g" and "R": f(r) = 2, f(g) = 1, d(r) = 3, d(g) = 2, so that the ratio
\* metric gives 3/2 + 2 to "r g" and 3/2 to "r"
C6_Witness ==
    /\ op = "extract_keywords_from_sentences"
    /\ metric = DEGREE_TO_FREQUENCY_RATIO
    /\ arg = << <<TokR>>, <<TokR, TokG>> >>
    /\ rank_list = << <<Rat(7, 2), <<114, 32, 103>> >>, <<Rat(3, 2), <<114>> >> >>

\* s < t in the lexicographic order of the code points
LexLess(s, t) ==
    \E k \in 1..Len(t) :
        /\ \A i \in 1..(k - 1) : i <= Len(s) /\ s[i] = t[i]
        /\ (k > Len(s) \/ s[k] < t[k])

\* no entry is followed by one of a greater score, or of the same score and
\* a greater string
IsDescending(ranks) ==
    \A i \in 1..(Len(ranks) - 1) :
        /\ ~RatLess(ranks[i][1], ranks[i + 1][1])
        /\ ranks[i][1] = ranks[i + 1][1]
              => ~LexLess(ranks[i][2], ranks[i + 1][2])

\* C7: after an extraction the list get_ranked_phrases_with_scores returns
\* is in descending order of (score, string): of two adjacent entries the
\* later has no greater score, and with equal scores no greater string.
C7_Descending ==
    op = "extract_keywords_from_sentences"
        => IsDescending(get_ranked_phrases_with_scores)

\* "g" then "R", both of score 1: "r", the greater string, comes first
C7_Witness ==
    /\ op = "extract_keywords_from_sentences"
    /\ arg = << <<TokG>>, <<TokR>> >>
    /\ Len(rank_list) = 2
    /\ rank_list[1][1] = rank_list[2][1]
    /\ rank_list[1][2] = <<114>>
    /\ rank_list[2][2] = <<103>>

\* C8: a ranking_metric that is no Metric member raises no error and sets
\* the metric to DEGREE_TO_FREQUENCY_RATIO; a Metric member is stored as it is.
C8_MetricFallback ==
    /\ IsMetric(ranking_metric) => metric = ranking_metric
    /\ ~IsMetric(ranking_metric) => metric = DEGREE_TO_FREQUENCY_RATIO
    /\ (op = "idle" /\ attrs = {}) => fault = "none"

\* Rake(ranking_metric=1), constructed and in use
C8_Witness ==
    /\ ranking_metric = [cls |-> "int", v |-> 1]
    /\ metric = DEGREE_TO_FREQUENCY_RATIO
    /\ op = "extract_keywords_from_sentences"
    /\ fault = "none"

\* the words of a phrase list
WordsOf(phrase_list) ==
    {phrase_list[q[1]][q[2]] : q \in Positions(phrase_list)}

\* C9: under DEGREE_TO_FREQUENCY_RATIO, _build_ranklist on a phrase list
\* with a word of frequency 0 completes without a fault, the word adding 0
\* to the score of its phrase.
C9_ZeroFrequency ==
    (/\ op = "_build_ranklist"
     /\ metric = DEGREE_TO_FREQUENCY_RATIO
     /\ {"frequency_dist", "degree"} \subseteq attrs
     /\ \E w \in WordsOf(arg) : CounterGet(frequency_dist, w) = 0)
        => fault = "none"

\* C10: after an extraction the tables and the ranked lists are those of the
\* configuration and of the sentences of that call, whatever the instance
\* held before: the frequencies and the degrees of the words of the
\* generated phrases and of no other key, the ranking of those phrases in
\* descending order, and its strings.
C10_Rebuilt ==
    op = "extract_keywords_from_sentences" =>
        /\ fault = "none"
        /\ attrs = {"frequency_dist", "degree", "rank_list", "ranked_phrases"}
        /\ DOMAIN frequency_dist = WordsOf(Generated)
        /\ DOMAIN degree = WordsOf(Generated)
        /\ \A w \in WordsOf(Generated) :
              /\ frequency_dist[w] = Occurrences(Generated, w)
              /\ degree[w] = DegreeOf(Generated, w)
        /\ IsRanking(rank_list, Generated)
        /\ IsDescending(rank_list)
        /\ Len(ranked_phrases) = Len(rank_list)
        /\ \A i \in 1..Len(rank_list) : ranked_phrases[i] = rank_list[i][2]

\* an extraction on an instance that held the tables of "g g": they are gone
C10_Witness ==
    /\ op = "extract_keywords_from_sentences"
    /\ budget < MaxCalls - 1
    /\ before.frequency_dist = (TokG :> 2)
    /\ before.degree = (TokG :> 4)
    /\ arg = << <<TokR>> >>
    /\ frequency_dist = (Lower(TokR) :> 1)
    /\ degree = (Lower(TokR) :> 1)

\* C11: a stopwords set given to the constructor, whatever its size, is the
\* stopword set of the instance, a punctuations set given is its punctuation
\* set, and to_ignore is the union of the two sets of the instance.
C11_Override ==
    /\ stopwords_arg.given => stopwords = stopwords_arg.v
    /\ punctuations_arg.given => punctuations = punctuations_arg.v
    /\ to_ignore = stopwords \cup punctuations

\* the entries of ranks that hold the string str
EntriesOf(ranks, str) == {i \in 1..Len(ranks) : ranks[i][2] = str}

\* the occurrences in phrase_list of the phrases that join to str
OccurrencesOf(phrase_list, str) ==
    {k \in 1..Len(phrase_list) : IsJoined(str, phrase_list[k])}

\* C12: after an extraction get_ranked_phrases is the sequence of the strings
\* of get_ranked_phrases_with_scores, in the same order; the ranked list has
\* one entry per phrase occurrence of the generated phrase list, k
\* occurrences of a phrase giving k entries; and the entries of one phrase
\* have the same score and lie next to one another.
C12_RankedPhrases ==
    op = "extract_keywords_from_sentences" =>
        LET ranks == get_ranked_phrases_with_scores
            n == Len(ranks)
        IN  /\ fault = "none"
            /\ get_ranked_phrases = [i \in 1..n |-> ranks[i][2]]
            /\ n = Len(Generated)
            /\ \A k \in 1..Len(Generated) :
                  \E i \in 1..n : IsJoined(ranks[i][2], Generated[k])
            /\ \A i \in 1..n :
                  Cardinality(EntriesOf(ranks, ranks[i][2]))
                      = Cardinality(OccurrencesOf(Generated, ranks[i][2]))
            /\ \A i, j \in 1..n :
                  (i < j /\ ranks[i][2] = ranks[j][2]) =>
                      /\ ranks[i][1] = ranks[j][1]
                      /\ \A k \in i..j : ranks[k][2] = ranks[i][2]

\* "g", "R", "g" with repeats kept: three entries, the two of "g" adjacent
\* though "r" lay between them in the text
C12_Witness ==
    /\ op = "extract_keywords_from_sentences"
    /\ include_repeated_phrases
    /\ metric = DEGREE_TO_FREQUENCY_RATIO
    /\ arg = << <<TokG>>, <<TokR>>, <<TokG>> >>
    /\ rank_list = << <<Rat(1, 1), <<114>> >>, <<Rat(1, 1), <<103>> >>,
                      <<Rat(1, 1), <<103>> >> >>
    /\ ranked_phrases = << <<114>>, <<103>>, <<103>> >>

\* the phrases of one sentence: its maximal runs within the length bounds,
\* from left to right
OwnPhrases(sentence) ==
    LET Fits(run) == InRange(Len(run))
    IN  SelectSeq(RunList(Lowered(sentence)), Fits)

\* the phrases of the first n sentences, sentence after sentence
RECURSIVE PhrasesUpTo(_, _)
PhrasesUpTo(sentences, n) ==
    IF n = 0 THEN <<>>
    ELSE PhrasesUpTo(sentences, n - 1) \o OwnPhrases(sentences[n])

\* C13: a phrase never spans two sentences: with repeats kept, the phrase
\* list _generate_phrases returns is the concatenation, in the order of the
\* sentences, of the phrase list of each sentence alone; the last run of a
\* sentence and the first run of the next stay two phrases, and a sentence
\* that is empty or holds only ignored tokens adds nothing.
C13_NoSpanning ==
    (op = "_generate_phrases" /\ include_repeated_phrases) =>
        /\ fault = "none"
        /\ ret = PhrasesUpTo(arg, Len(arg))
        /\ \A k \in 1..Len(arg) :
              (\A i \in 1..Len(arg[k]) : Lower(arg[k][i]) \in to_ignore)
                  => PhrasesUpTo(arg, k) = PhrasesUpTo(arg, k - 1)

\* "R" ends a sentence and "g" begins the next, nothing ignored between
\* them: two phrases; the empty sentence adds none
C13_Witness ==
    /\ op = "_generate_phrases"
    /\ include_repeated_phrases
    /\ arg = << <<TokR>>, <<TokG>>, <<>> >>
    /\ TokG \notin to_ignore
    /\ ret = << <<Lower(TokR)>>, <<TokG>> >>

\* the words of the maximal runs, of the sentences of the call, that lie
\* within the length bounds
GeneratedWords ==
    UNION {{run[i] : i \in 1..Len(run)} :
           run \in {x \in AllRuns(arg) : InRange(Len(x))}}

\* the number of words joined in a ranked string
WordCount(str) == Cardinality({c \in 1..Len(str) : str[c] = Space}) + 1

\* C14: after extract_keywords_from_sentences the frequency table and the
\* degree table have the same key set, the words of the generated phrase
\* list; every such word w has degree[w] >= frequency[w] >= 1; so the ratio
\* metric divides by no zero, and under it the score of an entry is at least
\* the number of words of its phrase.
C14_KeySets ==
    op = "extract_keywords_from_sentences" =>
        /\ fault = "none"
        /\ DOMAIN get_word_frequency_distribution = DOMAIN get_word_degrees
        /\ DOMAIN get_word_frequency_distribution = GeneratedWords
        /\ GeneratedWords = WordsOf(Generated)
        /\ \A w \in GeneratedWords :
              /\ degree[w] >= frequency_dist[w]
              /\ frequency_dist[w] >= 1
        /\ metric = DEGREE_TO_FREQUENCY_RATIO =>
              \A i \in 1..Len(rank_list) :
                  ~RatLess(rank_list[i][1], Rat(WordCount(rank_list[i][2]), 1))

\* min_length = max_length = 2 on "R g" and "g": the phrase "r g" alone is
\* generated, so f(r) = f(g) = 1 and d(r) = d(g) = 2, and its score is 4
C14_Witness ==
    /\ op = "extract_keywords_from_sentences"
    /\ metric = DEGREE_TO_FREQUENCY_RATIO
    /\ min_length = 2
    /\ max_length = 2
    /\ arg = << <<TokR, TokG>>, <<TokG>> >>
    /\ frequency_dist = (Lower(TokR) :> 1) @@ (TokG :> 1)
    /\ degree = (Lower(TokR) :> 2) @@ (TokG :> 2)
    /\ rank_list = << <<Rat(4, 1), <<114, 32, 103>> >> >>

\* C15: _build_ranklist, for any phrase list and any metric, leaves the
\* frequency table and the degree table as they were before the call, keys
\* and values: reading a table for a word it does not hold gives 0 and
\* inserts no key.
C15_TablesUnchanged ==
    op = "_build_ranklist" =>
        /\ get_word_frequency_distribution = before.frequency_dist
        /\ get_word_degrees = before.degree

====
